---- MODULE Spec2Model ----
(***************************************************************************)
(* Track point consolidation of the PhoneTrack timeline scripts.           *)
(*                                                                         *)
(* One timeline file is read and rewritten by the merge scripts:           *)
(*   merge_group          (auto_merge_timelines.py)                        *)
(*   update_timeline      (phonetrack_timeline_updater.py)                 *)
(*   merge_gpx_files      (merge_gpx.py, -o pointing at the timeline)      *)
(*   merge_daily_exports  (merge_daily_exports.py, module level script)    *)
(* Every action is one whole run of one of them; what the run read,        *)
(* computed and wrote is kept in the history variable "last".              *)
(* The functions the scripts are built from are applied to their arguments *)
(* one at a time in "call".                                                *)
(***************************************************************************)
EXTENDS Integers, Sequences, FiniteSets, TLC

VARIABLES timeline, last, call, disk, proc

vars == <<timeline, last, call, disk, proc>>

(***************************************************************************)
(* Bounds of the model.                                                    *)
(***************************************************************************)
\* track points (trkpt elements) over all source files handed to one run
MaxPts == 2
\* source files handed to one run of merge_group / merge_daily_exports
MaxFiles == 2

(***************************************************************************)
(* Program constants.                                                      *)
(***************************************************************************)
\* "if ts.year == 2000": the year of the unset-clock entries
SentinelYear == 2000
\* fix_year_2000_timestamps(points, new_year=2019)
NewYear == 2019

(***************************************************************************)
(* Timestamp texts and datetime values.                                    *)
(*                                                                         *)
(* A timestamp text is the record [y, h, sfx]: the characters              *)
(* "<y>-06-01T<h>:00:00<sfx>".  sfx is what follows the seconds:           *)
(*   "Z", "+00:00", "+02:00", "" (no offset written), "x" (trailing junk,  *)
(*   not ISO 8601) and "none" (no <time> element, or one without text).    *)
(* A datetime is [y, h, off, aware, err]: wall clock year and hour, UTC    *)
(* offset in hours, whether tzinfo is set; err marks a raised ValueError.  *)
(***************************************************************************)
Txt(y, h, sfx) == [y |-> y, h |-> h, sfx |-> sfx]

NoTime == Txt(0, 0, "none")

DateTime(y, h, off, aware) ==
    [y |-> y, h |-> h, off |-> off, aware |-> aware, err |-> FALSE]

ValueError == [y |-> 0, h |-> 0, off |-> 0, aware |-> FALSE, err |-> TRUE]

\* datetime.fromisoformat
fromisoformat(t) ==
    CASE t.sfx = "+00:00" -> DateTime(t.y, t.h, 0, TRUE)
      [] t.sfx = "+02:00" -> DateTime(t.y, t.h, 2, TRUE)
      [] t.sfx = ""       -> DateTime(t.y, t.h, 0, FALSE)
      [] OTHER            -> ValueError

\* parse_timestamp: a "Z" is replaced by "+00:00" before parsing
parse_timestamp(t) ==
    IF t.sfx = "Z" THEN fromisoformat([t EXCEPT !.sfx = "+00:00"])
    ELSE fromisoformat(t)

\* datetime.isoformat(): the offset is rendered numerically, never as "Z"
isoformat(ts) ==
    Txt(ts.y, ts.h,
        IF ~ts.aware THEN "" ELSE IF ts.off = 0 THEN "+00:00" ELSE "+02:00")

\* datetime.strftime('%Y-%m-%dT%H:%M:%SZ'): wall clock fields and a literal Z
strftime_Z(ts) == Txt(ts.y, ts.h, "Z")

\* datetime.replace(year=...)
replace_year(ts, year) == [ts EXCEPT !.y = year]

\* The position of a datetime on the time line, in hours (a year is given
\* more hours than it has; only the order matters).  For an aware datetime
\* this is the UTC instant, for a naive one the wall clock.
Instant(ts) == ts.y * 10000 + ts.h - ts.off

(***************************************************************************)
(* Track points and files.                                                 *)
(*                                                                         *)
(* A point is a trkpt element: lat and lon attribute texts, the time text, *)
(* the ele text and the useragent text of its extensions ("" when the      *)
(* element is absent or has no text).                                      *)
(* A file is [exists, ok, ns, pts]: whether the path exists, whether its   *)
(* content is well-formed XML, whether its elements are qualified with the *)
(* GPX namespace (xmlns="http://www.topografix.com/GPX/1/1"), and the      *)
(* trkpt elements written in it.                                           *)
(***************************************************************************)
Pt(lat, t, ele, ua) ==
    [lat |-> lat, lon |-> "19.0", time |-> t, ele |-> ele, ua |-> ua]

pZ      == Pt("47.1", Txt(2023, 10, "Z"), "", "")
pP      == Pt("47.1", Txt(2023, 10, "+00:00"), "120", "")
pTie    == Pt("47.0", Txt(2023, 10, "Z"), "", "")
pEarly  == Pt("47.1", Txt(2023, 9, "Z"), "", "")
pAmp    == Pt("47.1", Txt(2023, 11, "Z"), "", "a&b")
pOld    == Pt("47.1", Txt(2000, 10, "Z"), "", "")
pOldOff == Pt("47.1", Txt(2000, 11, "+02:00"), "", "")
pNaive  == Pt("47.1", Txt(2023, 10, ""), "", "")
pBad    == Pt("47.1", Txt(2023, 10, "x"), "", "")

\* the points a source file of merge_group or update_timeline can hold: their
\* extractor drops every year 2000 point alike, pOld stands for them
Points == {pZ, pP, pTie, pEarly, pAmp, pOld, pNaive, pBad}

\* the points a source file of merge_gpx_files or merge_daily_exports can
\* hold: these scripts keep year 2000 points
LegacyPoints == Points \cup {pOldOff}

NoFile == [exists |-> FALSE, ok |-> FALSE, ns |-> FALSE, pts |-> <<>>]

Malformed == [exists |-> TRUE, ok |-> FALSE, ns |-> FALSE, pts |-> <<>>]

\* a GPX document as PhoneTrack exports it, its elements in the GPX namespace
XmlFile(pts) == [exists |-> TRUE, ok |-> TRUE, ns |-> TRUE, pts |-> pts]

\* the same document without a namespace declaration
PlainXmlFile(pts) == [exists |-> TRUE, ok |-> TRUE, ns |-> FALSE, pts |-> pts]

SeqsUpTo(S, n) == UNION {[1..k -> S] : k \in 0..n}

\* the source files a run can be handed (the scripts are given paths that
\* exist: glob results, or paths main() has checked): a file that is not
\* well-formed XML, or a GPX document with at most n track points from P
FilesUpTo(P, n) == {Malformed} \cup {XmlFile(s) : s \in SeqsUpTo(P, n)}

\* the lists of exactly k source files holding at most n track points in all
RECURSIVE FileListsOf(_, _, _)
FileListsOf(P, k, n) ==
    IF k = 0 THEN {<<>>}
    ELSE UNION {{<<f>> \o r : r \in FileListsOf(P, k - 1, n - Len(f.pts))} :
                f \in FilesUpTo(P, n)}

FileLists(P) == UNION {FileListsOf(P, k, MaxPts) : k \in 0..MaxFiles}

\* the inputs of the four scripts
GroupFiles == FileLists(Points)

NewFiles == FilesUpTo(Points, MaxPts)

GpxFilePairs == FileListsOf(LegacyPoints, 2, MaxPts)

DailyFiles == FileLists(LegacyPoints)

\* ET.parse(path) raises: the file is missing or is not well-formed XML
ParseRaises(f) == ~f.exists \/ ~f.ok

\* text that the serializer's f-strings write unescaped and that makes the
\* written document ill-formed (it contains "&" or "<")
NeedsEscape(s) == s \in {"a&b"}

(***************************************************************************)
(* The extractors.                                                         *)
(***************************************************************************)
\* root.findall('.//{%s}trkpt' % GPX_NS): the trkpt elements of the GPX
\* namespace; an element without a namespace does not match
findall_trkpt(f) == IF f.ns THEN f.pts ELSE <<>>

\* the loop over root.findall('.//trkpt'): a point is kept with its parsed
\* timestamp unless it has no time text, the text does not parse, or
\* (skip2000) the parsed year is 2000
RECURSIVE scan_trkpts(_, _)
scan_trkpts(pts, skip2000) ==
    IF pts = <<>> THEN <<>>
    ELSE LET p    == Head(pts)
             ts   == parse_timestamp(p.time)
             rest == scan_trkpts(Tail(pts), skip2000)
         IN  IF p.time.sfx = "none" THEN rest
             ELSE IF ts.err THEN rest
             ELSE IF skip2000 /\ ts.y = SentinelYear THEN rest
             ELSE <<[ts |-> ts, pt |-> p]>> \o rest

\* auto_merge_timelines.collect_track_points: [] when the file cannot be parsed
am_collect_track_points(f) ==
    IF ParseRaises(f) THEN <<>> ELSE scan_trkpts(findall_trkpt(f), TRUE)

\* phonetrack_timeline_updater.collect_track_points: the same
up_collect_track_points(f) ==
    IF ParseRaises(f) THEN <<>> ELSE scan_trkpts(findall_trkpt(f), TRUE)

\* merge_gpx.collect_track_points: no year filter; ET.parse is not guarded,
\* the caller is asked ParseRaises first
gpx_collect_track_points(f) == scan_trkpts(findall_trkpt(f), FALSE)

\* merge_daily_exports.collect_track_points: no year filter, ET.parse not guarded
daily_collect_track_points(f) == scan_trkpts(findall_trkpt(f), FALSE)

(***************************************************************************)
(* Duplicate elimination, sorting, serialisation.                          *)
(***************************************************************************)
\* key = (pt.get('lat'), pt.get('lon'), ts.isoformat())
iso_key(e) == <<e.pt.lat, e.pt.lon, isoformat(e.ts)>>

\* merge_gpx: key = (lat, lon, time_elem.text)
text_key(e) == <<e.pt.lat, e.pt.lon, e.pt.time>>

\* variant: the scan keeps the last entry of a key instead of the first
dedup_keep_last(all, keys, i, seen) ==
    LET kept == {j \in i..Len(all) : \A m \in (j + 1)..Len(all) : keys[m] # keys[j]}
        f[j \in (i - 1)..Len(all)] ==
            IF j < i THEN <<>>
            ELSE IF j \in kept THEN f[j - 1] \o <<all[j]>> ELSE f[j - 1]
    IN  f[Len(all)]

\* the scan "if key not in seen: seen.add(key); unique.append(...)" from
\* position i on; keys[i] is the key of all[i]
RECURSIVE dedup_from(_, _, _, _)
dedup_from(all, keys, i, seen) ==
    IF i > Len(all) THEN <<>>
    ELSE IF keys[i] \in seen THEN dedup_from(all, keys, i + 1, seen)
    ELSE <<all[i]>> \o dedup_from(all, keys, i + 1, seen \cup {keys[i]})

dedup_iso(all) == dedup_from(all, [i \in DOMAIN all |-> iso_key(all[i])], 1, {})

dedup_text(all) == dedup_from(all, [i \in DOMAIN all |-> text_key(all[i])], 1, {})

\* comparing an offset-naive with an offset-aware datetime raises TypeError;
\* a sort (or min/max) of a list that holds both compares such a pair
CompareRaises(s) ==
    \E i, j \in DOMAIN s : s[i].ts.aware /\ ~s[j].ts.aware

\* variant: e is put in front of the entries of its own timestamp
RECURSIVE insort_front(_, _)
insort_front(e, s) ==
    IF s = <<>> THEN <<e>>
    ELSE IF Instant(e.ts) <= Instant(Head(s).ts) THEN <<e>> \o s
    ELSE <<Head(s)>> \o insort_front(e, Tail(s))

\* e put into the sorted list s behind every entry that is not later than it
RECURSIVE insort(_, _)
insort(e, s) ==
    IF s = <<>> THEN <<e>>
    ELSE IF Instant(e.ts) < Instant(Head(s).ts) THEN <<e>> \o s
    ELSE <<Head(s)>> \o insort(e, Tail(s))

\* list.sort(key=lambda x: x[0]) / sorted(points, key=lambda p: p[0]):
\* ascending by timestamp, stable
RECURSIVE sort_by_ts(_)
sort_by_ts(s) ==
    IF s = <<>> THEN <<>>
    ELSE insort(s[Len(s)], sort_by_ts(SubSeq(s, 1, Len(s) - 1)))

\* the trkpt element the serializer writes for a point: lat, lon, time, and
\* ele and useragent when they have text
emit(pt) ==
    [lat |-> pt.lat, lon |-> pt.lon, time |-> pt.time, ele |-> pt.ele, ua |-> pt.ua]

\* write_gpx / create_merged_gpx + open(..., 'w'): the file after the write.
\* Texts are written as they are, so the document is well-formed only
\* when none of them needs escaping.
write_gpx(points) ==
    [exists |-> TRUE,
     ns     |-> TRUE,
     ok     |-> \A i \in DOMAIN points :
                   ~NeedsEscape(points[i].pt.lat) /\ ~NeedsEscape(points[i].pt.lon)
                   /\ ~NeedsEscape(points[i].pt.ele) /\ ~NeedsEscape(points[i].pt.ua),
     pts    |-> [i \in DOMAIN points |-> emit(points[i].pt)]]

RECURSIVE Concat(_)
Concat(ss) == IF ss = <<>> THEN <<>> ELSE Head(ss) \o Concat(Tail(ss))

\* number of source files of a run that could not be read
Unreadable(files) == Cardinality({i \in DOMAIN files : ParseRaises(files[i])})

(***************************************************************************)
(* The record of a run, kept in "last" until the process exits.            *)
(*   op         the script that ran ("none": no run in progress)           *)
(*   flag       merge_group: --include-existing; merge_gpx_files:          *)
(*              fix_year_2000; the updater: --dry-run; FALSE otherwise     *)
(*   prev       the file at the output path before the run                 *)
(*   existing   the entries read from the existing timeline                *)
(*   lists      the entries extracted from each source file, in order      *)
(*              (<<>> when a read error of a file ended the run)           *)
(*   all_points the concatenation as it stands at the duplicate scan       *)
(*   unique     the entries the duplicate scan kept, before the sort       *)
(*   out        the points written, in order (<<>> when nothing written)   *)
(*   wrote      the output file was written                                *)
(*   raised     the exception that left the function ("": none)            *)
(*   ret        merge_group: the count returned; update_timeline: 1 for    *)
(*              True, 0 for False; 0 otherwise                             *)
(*   skipped    source files that were missing or not well-formed          *)
(*   again      the run repeats the run before it on unchanged sources     *)
(*   pc         "rescan": update_timeline has written the timeline and     *)
(*              waits for the rescan command; "done" otherwise             *)
(***************************************************************************)
RunRec(op, flag, prev, existing, lists, all, unique, out, wrote, raised, ret, skipped) ==
    [op |-> op, flag |-> flag, prev |-> prev, existing |-> existing, lists |-> lists,
     all_points |-> all, unique |-> unique, out |-> out, wrote |-> wrote,
     raised |-> raised, ret |-> ret, skipped |-> skipped, again |-> FALSE,
     pc |-> "done"]

Idle == RunRec("none", FALSE, NoFile, <<>>, <<>>, <<>>, <<>>, <<>>, FALSE, "", 0, 0)

\* what a run leaves behind: the file at the output path and the run's record
Outcome(file, run) == [file |-> file, run |-> run]

\* the application of one function: its name, the script it belongs to, its
\* argument, and the value returned once it is done
Call(fn, script, arg) ==
    [fn |-> fn, script |-> script, arg |-> arg, res |-> <<>>, done |-> FALSE]

NoCall == Call("none", "none", <<>>)

\* the write a process is at: the destination, the names and the content
\* (the source files whose points it holds) handed to write_gpx, and the
\* file that was at the destination before
Job(path, session_name, username, srcs, before) ==
    [path |-> path, session_name |-> session_name, username |-> username,
     srcs |-> srcs, before |-> before]

NoJob == Job(<<>>, <<>>, <<>>, {}, {})

\* a process of auto_merge_timelines or phonetrack_timeline_updater: where
\* it is, the groups still to process, the write it is at, what it raised
\* and returned, how the rescan command ended, the destinations it has
\* written, the number of processes started so far, and what update_timeline
\* was called with (the storage path and the points of the new file)
Process(script, pc, include_existing, groups, runs) ==
    [script |-> script, pc |-> pc, include_existing |-> include_existing,
     groups |-> groups, queue |-> groups, cur |-> NoJob, raised |-> "",
     ret |-> "none", hook |-> "not run", written |-> {}, runs |-> runs,
     arg |-> [nc_path |-> <<>>, new_file |-> {}], dry_run |-> FALSE]

NoProcess == Process("none", "idle", FALSE, <<>>, 0)

Init ==
    /\ timeline = NoFile
    /\ last = Idle
    /\ disk = {} /\ proc = NoProcess
    /\ call = NoCall

(***************************************************************************)
(* auto_merge_timelines.merge_group(files, output_path, session_name,      *)
(* username, existing_timeline), from the extracted source lists on.       *)
(***************************************************************************)
merge_group_lists(tl, lists, include_existing, skipped) ==
    LET existing == IF include_existing /\ tl.exists
                    THEN am_collect_track_points(tl) ELSE <<>>
        all      == existing \o Concat(lists)
        unique   == dedup_iso(all)
        newfile  == write_gpx(sort_by_ts(unique))
    IN  IF all = <<>>
        THEN \* "if not all_points: return 0"
             Outcome(tl, RunRec("merge_group", include_existing, tl, existing, lists,
                                all, <<>>, <<>>, FALSE, "", 0, skipped))
        ELSE IF CompareRaises(unique)
        THEN \* unique.sort raises TypeError before anything is written
             Outcome(tl, RunRec("merge_group", include_existing, tl, existing, lists,
                                all, unique, <<>>, FALSE, "TypeError", 0, skipped))
        ELSE Outcome(newfile,
                     RunRec("merge_group", include_existing, tl, existing, lists,
                            all, unique, newfile.pts, TRUE, "", Len(unique), skipped))

merge_group(tl, files, include_existing) ==
    merge_group_lists(tl, [i \in DOMAIN files |-> am_collect_track_points(files[i])],
                      include_existing, Unreadable(files))

(***************************************************************************)
(* phonetrack_timeline_updater.update_timeline(new_file, nc_path,          *)
(* data_dir).  A storage-relative path is [nparts, daily]: the number of   *)
(* its "/" separated parts and whether its last part matches               *)
(* DAILY_PATTERN.                                                          *)
(***************************************************************************)
NcPaths == {[nparts |-> 4, daily |-> TRUE], [nparts |-> 4, daily |-> FALSE],
            [nparts |-> 2, daily |-> TRUE]}

\* parse_nextcloud_path returns None
parse_nextcloud_path_fails(nc_path) == nc_path.nparts < 3 \/ ~nc_path.daily

update_timeline_points(tl, new_points, skipped) ==
    LET existing == IF tl.exists THEN up_collect_track_points(tl) ELSE <<>>
        all      == existing \o new_points
        unique   == dedup_iso(all)
        newfile  == write_gpx(sort_by_ts(unique))
    IN  IF new_points = <<>>
        THEN \* "No valid track points in new file": return False
             Outcome(tl, RunRec("update_timeline", FALSE, tl, <<>>, <<new_points>>,
                                <<>>, <<>>, <<>>, FALSE, "", 0, skipped))
        ELSE IF CompareRaises(unique)
        THEN \* unique.sort raises TypeError before anything is written
             Outcome(tl, RunRec("update_timeline", FALSE, tl, existing, <<new_points>>,
                                all, unique, <<>>, FALSE, "TypeError", 0, skipped))
        ELSE \* written (line 247); the rescan command is started next and
             \* update_timeline has not returned yet
             Outcome(newfile,
                     [RunRec("update_timeline", FALSE, tl, existing, <<new_points>>,
                             all, unique, newfile.pts, TRUE, "", 0, skipped)
                         EXCEPT !.pc = "rescan"])

update_timeline(tl, new_file, nc_path) ==
    IF parse_nextcloud_path_fails(nc_path)
    THEN \* "Could not parse Nextcloud path": return False
         Outcome(tl, RunRec("update_timeline", FALSE, tl, <<>>, <<>>, <<>>, <<>>, <<>>,
                            FALSE, "", 0, 0))
    ELSE update_timeline_points(tl, up_collect_track_points(new_file),
                                Unreadable(<<new_file>>))

\* phonetrack_timeline_updater.main: the process exits with status 1 when
\* the new file does not exist and with status 0 on --dry-run, in both cases
\* before update_timeline is called
updater_main(tl, new_file, nc_path, dry_run) ==
    IF ~new_file.exists \/ dry_run
    THEN Outcome(tl, RunRec("update_timeline", dry_run, tl, <<>>, <<>>, <<>>, <<>>, <<>>,
                            FALSE, "", 0, Unreadable(<<new_file>>)))
    ELSE update_timeline(tl, new_file, nc_path)

(***************************************************************************)
(* merge_gpx.merge_gpx_files(file1, file2, output_file, ..., fix_year_2000)*)
(***************************************************************************)
\* one step of fix_year_2000_timestamps: a year 2000 entry gets the year
\* 2019, and its time text is rewritten from the new timestamp with a "Z"
fix_entry(e) ==
    IF e.ts.y = SentinelYear
    THEN [ts |-> replace_year(e.ts, NewYear),
          pt |-> [e.pt EXCEPT !.time = strftime_Z(replace_year(e.ts, NewYear))]]
    ELSE e

fix_year_2000_timestamps(points) == [i \in DOMAIN points |-> fix_entry(points[i])]

merge_gpx_points(tl, points1, points2, fix_year_2000) ==
    LET joined  == points1 \o points2
        all     == IF fix_year_2000 THEN fix_year_2000_timestamps(joined) ELSE joined
        unique  == dedup_text(all)
        newfile == write_gpx(sort_by_ts(unique))
    IN  IF CompareRaises(points1) \/ CompareRaises(points2)
        THEN \* min()/max() of the "Date range" print raises TypeError
             Outcome(tl, RunRec("merge_gpx_files", fix_year_2000, tl, <<>>,
                                <<points1, points2>>, <<>>, <<>>, <<>>, FALSE, "TypeError", 0, 0))
        ELSE IF CompareRaises(unique)
        THEN \* sorted() in create_merged_gpx raises before the file is opened
             Outcome(tl, RunRec("merge_gpx_files", fix_year_2000, tl, <<>>,
                                <<points1, points2>>, all, unique, <<>>, FALSE, "TypeError", 0, 0))
        ELSE \* the file is written whatever unique_points holds
             Outcome(newfile,
                     RunRec("merge_gpx_files", fix_year_2000, tl, <<>>,
                            <<points1, points2>>, all, unique, newfile.pts,
                            TRUE, "", 0, 0))

\* the reads and the two "Date range" prints come in the order file 1, its
\* min()/max(), file 2, its min()/max(): the first of them that raises
\* ends the run, and nothing catches it
merge_gpx_files(tl, file1, file2, fix_year_2000) ==
    LET points1 == gpx_collect_track_points(file1)
        skipped == Unreadable(<<file1, file2>>)
    IN  IF ParseRaises(file1)
        THEN \* ET.parse(file1) raises in collect_track_points
             Outcome(tl, RunRec("merge_gpx_files", fix_year_2000, tl, <<>>, <<>>, <<>>, <<>>,
                                <<>>, FALSE, "ParseError", 0, skipped))
        ELSE IF CompareRaises(points1)
        THEN \* min()/max() over points1 raises TypeError before file 2 is read
             Outcome(tl, RunRec("merge_gpx_files", fix_year_2000, tl, <<>>, <<points1>>,
                                <<>>, <<>>, <<>>, FALSE, "TypeError", 0, skipped))
        ELSE IF ParseRaises(file2)
        THEN \* ET.parse(file2) raises in collect_track_points
             Outcome(tl, RunRec("merge_gpx_files", fix_year_2000, tl, <<>>, <<>>, <<>>, <<>>,
                                <<>>, FALSE, "ParseError", 0, skipped))
        ELSE merge_gpx_points(tl, points1, gpx_collect_track_points(file2),
                              fix_year_2000)

(***************************************************************************)
(* merge_daily_exports.py, the module level script: the timeline file is   *)
(* read, the daily exports are added, the timeline file is rewritten.      *)
(***************************************************************************)
\* ET.parse of the timeline file or of a daily export raises
\* (FileNotFoundError when there is no timeline file yet); nothing catches
\* it and nothing is written
merge_daily_unreadable(tl, skipped) ==
    Outcome(tl, RunRec("merge_daily_exports", FALSE, tl, <<>>, <<>>, <<>>, <<>>,
                       <<>>, FALSE,
                       IF ~tl.exists THEN "FileNotFoundError" ELSE "ParseError",
                       0, skipped))

\* lines 90-125 once every daily export has been read
merge_daily_lists(tl, lists) ==
    LET existing == daily_collect_track_points(tl)
        all      == sort_by_ts(existing) \o Concat(lists)
        unique   == dedup_iso(all)
        newfile  == write_gpx(sort_by_ts(unique))
    IN  IF ParseRaises(tl)
        THEN \* collect_track_points(timeline_file) raises at line 90
             merge_daily_unreadable(tl, 0)
        ELSE IF CompareRaises(existing) \/ CompareRaises(unique)
        THEN \* all_points.sort or unique.sort raises TypeError
             Outcome(tl, RunRec("merge_daily_exports", FALSE, tl, existing, lists,
                                <<>>, <<>>, <<>>, FALSE, "TypeError", 0, 0))
        ELSE \* write_gpx runs whatever unique holds; the print of unique[0][0]
             \* that follows raises IndexError when it is empty
             Outcome(newfile,
                     RunRec("merge_daily_exports", FALSE, tl, existing, lists,
                            all, unique, newfile.pts, TRUE,
                            IF unique = <<>> THEN "IndexError" ELSE "", 0, 0))

\* the timeline file is read and sorted (lines 90-94) before the first
\* daily export is opened (line 101)
merge_daily_exports(tl, daily_files) ==
    IF ParseRaises(tl)
    THEN merge_daily_unreadable(tl, Unreadable(daily_files))
    ELSE IF CompareRaises(daily_collect_track_points(tl))
    THEN \* all_points.sort raises TypeError at line 93
         Outcome(tl, RunRec("merge_daily_exports", FALSE, tl,
                            daily_collect_track_points(tl), <<>>, <<>>, <<>>, <<>>,
                            FALSE, "TypeError", 0, Unreadable(daily_files)))
    ELSE IF \E i \in DOMAIN daily_files : ParseRaises(daily_files[i])
    THEN merge_daily_unreadable(tl, Unreadable(daily_files))
    ELSE merge_daily_lists(tl, [i \in DOMAIN daily_files |->
                                   daily_collect_track_points(daily_files[i])])

(***************************************************************************)
(* remove_2000_entries.py, the module level script: two fixed source files *)
(* are read (the year 2000 points of the first are skipped, those of the   *)
(* second are not) and the timeline file is written from them; the file    *)
(* that was at the timeline's path is not read.                            *)
(***************************************************************************)
\* what ET.parse raises for a file it cannot read
ReadError(f) == IF ~f.exists THEN "FileNotFoundError" ELSE "ParseError"

\* remove_2000_entries.collect_track_points(file_path, skip_year_2000):
\* ET.parse not guarded
remove_collect_track_points(f, skip_year_2000) ==
    scan_trkpts(findall_trkpt(f), skip_year_2000)

\* lines 41-106
remove_2000_lists(tl, points1, points2) ==
    LET all     == points1 \o points2
        unique  == dedup_iso(all)
        newfile == write_gpx(sort_by_ts(unique))
    IN  IF CompareRaises(unique)
        THEN \* unique.sort raises TypeError before the file is opened
             Outcome(tl, RunRec("remove_2000_entries", FALSE, tl, <<>>,
                                <<points1, points2>>, all, unique, <<>>, FALSE,
                                "TypeError", 0, 0))
        ELSE \* the file is written whatever unique holds; the print of
             \* unique[0][0] that follows raises IndexError when it is empty
             Outcome(newfile,
                     RunRec("remove_2000_entries", FALSE, tl, <<>>,
                            <<points1, points2>>, all, unique, newfile.pts, TRUE,
                            IF unique = <<>> THEN "IndexError" ELSE "", 0, 0))

\* what the script's two fixed source paths can hold: two files of at most
\* MaxPts track points in all, or a file at one of them, or none
RemoveSources ==
    GpxFilePairs
        \cup {<<NoFile, f>> : f \in FilesUpTo(LegacyPoints, MaxPts)}
        \cup {<<f, NoFile>> : f \in FilesUpTo(LegacyPoints, MaxPts)}
        \cup {<<NoFile, NoFile>>}

remove_2000_entries(tl, file1, file2) ==
    IF ParseRaises(file1) \/ ParseRaises(file2)
    THEN \* ET.parse raises at line 34 or, the first file read, at line 38;
         \* nothing is written
         Outcome(tl, RunRec("remove_2000_entries", FALSE, tl, <<>>, <<>>, <<>>, <<>>,
                            <<>>, FALSE,
                            IF ParseRaises(file1) THEN ReadError(file1)
                            ELSE ReadError(file2),
                            0, Unreadable(<<file1, file2>>)))
    ELSE remove_2000_lists(tl, remove_collect_track_points(file1, TRUE),
                           remove_collect_track_points(file2, FALSE))

(***************************************************************************)
(* merge_gabor_timelines.py, the module level script: the earlier timeline *)
(* is read and sorted, then the timeline at the output path is read and    *)
(* sorted, and the output path is rewritten with the earlier timeline's    *)
(* points first.  In the record of the run "existing" holds the entries of *)
(* the earlier timeline and "lists" those of the timeline at the output    *)
(* path, each as extracted.                                                *)
(***************************************************************************)
\* merge_gabor_timelines.collect_track_points: year 2000 points are skipped,
\* ET.parse not guarded
gabor_collect_track_points(f) == scan_trkpts(findall_trkpt(f), TRUE)

\* the files the earlier timeline's path can hold
EarlierFiles == {NoFile} \cup FilesUpTo(LegacyPoints, MaxPts)

\* lines 89-118, the earlier timeline read and sorted
merge_gabor_points(tl, earlier_points) ==
    LET new_points == gabor_collect_track_points(tl)
        all        == sort_by_ts(earlier_points) \o sort_by_ts(new_points)
        unique     == dedup_iso(all)
        newfile    == write_gpx(sort_by_ts(unique))
    IN  IF ParseRaises(tl)
        THEN \* collect_track_points(new_file) raises at line 90
             Outcome(tl, RunRec("merge_gabor_timelines", FALSE, tl, earlier_points,
                                <<>>, <<>>, <<>>, <<>>, FALSE, ReadError(tl), 0, 1))
        ELSE IF CompareRaises(new_points) \/ CompareRaises(unique)
        THEN \* new_points.sort or unique.sort raises TypeError
             Outcome(tl, RunRec("merge_gabor_timelines", FALSE, tl, earlier_points,
                                <<new_points>>, <<>>, <<>>, <<>>, FALSE,
                                "TypeError", 0, 0))
        ELSE \* write_gpx runs whatever unique holds; the print of unique[0][0]
             \* that follows raises IndexError when it is empty
             Outcome(newfile,
                     RunRec("merge_gabor_timelines", FALSE, tl, earlier_points,
                            <<new_points>>, all, unique, newfile.pts, TRUE,
                            IF unique = <<>> THEN "IndexError" ELSE "", 0, 0))

merge_gabor_timelines(tl, earlier_file) ==
    IF ParseRaises(earlier_file)
    THEN \* collect_track_points(earlier_file) raises at line 83
         Outcome(tl, RunRec("merge_gabor_timelines", FALSE, tl, <<>>, <<>>, <<>>,
                            <<>>, <<>>, FALSE, ReadError(earlier_file), 0,
                            Unreadable(<<earlier_file, tl>>)))
    ELSE IF CompareRaises(gabor_collect_track_points(earlier_file))
    THEN \* earlier_points.sort raises TypeError at line 86
         Outcome(tl, RunRec("merge_gabor_timelines", FALSE, tl,
                            gabor_collect_track_points(earlier_file), <<>>, <<>>,
                            <<>>, <<>>, FALSE, "TypeError", 0,
                            Unreadable(<<earlier_file, tl>>)))
    ELSE merge_gabor_points(tl, gabor_collect_track_points(earlier_file))

(***************************************************************************)
(* Actions: a run starts from the files alone (no run in progress), and    *)
(* its record stays until the process exits.                               *)
(***************************************************************************)
Finish(o) ==
    /\ timeline' = o.file
    /\ last' = o.run
    /\ UNCHANGED <<call, disk, proc>>

MergeGroup ==
    /\ last.op = "none"
    /\ \E files \in GroupFiles, include_existing \in BOOLEAN :
          Finish(merge_group(timeline, files, include_existing))

\* main of the updater up to the write of the timeline
UpdateTimeline ==
    /\ last.op = "none"
    /\ \E new_file \in NewFiles \cup {NoFile}, nc_path \in NcPaths, dry_run \in BOOLEAN :
          Finish(updater_main(timeline, new_file, nc_path, dry_run))

MergeGpxFiles ==
    /\ last.op = "none"
    /\ \E files \in GpxFilePairs, fix_year_2000 \in BOOLEAN :
          Finish(merge_gpx_files(timeline, files[1], files[2], fix_year_2000))

MergeDailyExports ==
    /\ last.op = "none"
    /\ \E daily_files \in DailyFiles :
          Finish(merge_daily_exports(timeline, daily_files))

Remove2000Entries ==
    /\ last.op = "none"
    /\ \E files \in RemoveSources :
          Finish(remove_2000_entries(timeline, files[1], files[2]))

MergeGaborTimelines ==
    /\ last.op = "none"
    /\ \E earlier_file \in EarlierFiles :
          Finish(merge_gabor_timelines(timeline, earlier_file))

\* subprocess.run of the rescan command has ended (return code 0 or not,
\* TimeoutExpired after 60 s, or the command could not be started, all of
\* them only logged): update_timeline returns True.  No file is changed.
RescanReturns ==
    /\ last.op = "update_timeline" /\ last.pc = "rescan"
    /\ last' = [last EXCEPT !.pc = "done", !.ret = 1]
    /\ timeline' = timeline
    /\ UNCHANGED <<call, disk, proc>>

\* the same command is run again on unchanged source files: the extractors
\* return the lists of the run before
RunAgain ==
    /\ last.wrote /\ last.pc = "done"
    /\ LET o == CASE last.op = "merge_group" ->
                       merge_group_lists(timeline, last.lists, last.flag, last.skipped)
                  [] last.op = "update_timeline" ->
                       update_timeline_points(timeline, last.lists[1], last.skipped)
                  [] last.op = "merge_gpx_files" ->
                       merge_gpx_points(timeline, last.lists[1], last.lists[2], last.flag)
                  [] last.op = "remove_2000_entries" ->
                       remove_2000_lists(timeline, last.lists[1], last.lists[2])
                  [] last.op = "merge_gabor_timelines" ->
                       merge_gabor_points(timeline, last.existing)
                  [] OTHER ->
                       merge_daily_lists(timeline, last.lists)
       IN  /\ timeline' = o.file
           /\ last' = [o.run EXCEPT !.again = TRUE]
           /\ UNCHANGED <<call, disk, proc>>

\* the process ends (an updater that waits for the rescan is ended by its
\* caller); the next run starts from the files
Exit ==
    /\ last.op # "none"
    /\ last' = Idle
    /\ timeline' = timeline
    /\ UNCHANGED <<call, disk, proc>>

NextTimeline == MergeGroup \/ UpdateTimeline \/ RescanReturns \/ RunAgain \/ Exit

Next ==
    \/ MergeGroup \/ UpdateTimeline \/ RescanReturns
    \/ MergeGpxFiles \/ MergeDailyExports
    \/ Remove2000Entries \/ MergeGaborTimelines
    \/ RunAgain \/ Exit

\* the two scripts that maintain a timeline in place
SpecTimeline == Init /\ [][NextTimeline]_vars

\* every merge script
Spec == Init /\ [][Next]_vars

(***************************************************************************)
(* collect_track_points of each script, applied to one document.           *)
(***************************************************************************)
Scripts == {"auto_merge_timelines", "phonetrack_timeline_updater",
            "merge_gpx", "merge_daily_exports"}

\* the documents an extractor can be handed: not well-formed, or a GPX
\* document with or without the namespace declaration
Docs == {Malformed} \cup {XmlFile(s) : s \in SeqsUpTo(LegacyPoints, MaxPts)}
                   \cup {PlainXmlFile(s) : s \in SeqsUpTo(LegacyPoints, MaxPts)}

\* what collect_track_points of the script returns for the file, or raises
collect_track_points(script, f) ==
    CASE script = "auto_merge_timelines" ->
            [pts |-> am_collect_track_points(f), raised |-> ""]
      [] script = "phonetrack_timeline_updater" ->
            [pts |-> up_collect_track_points(f), raised |-> ""]
      [] script = "merge_gpx" ->
            IF ParseRaises(f) THEN [pts |-> <<>>, raised |-> "ParseError"]
            ELSE [pts |-> gpx_collect_track_points(f), raised |-> ""]
      [] OTHER ->
            IF ParseRaises(f) THEN [pts |-> <<>>, raised |-> "ParseError"]
            ELSE [pts |-> daily_collect_track_points(f), raised |-> ""]

InitExtract ==
    /\ timeline = NoFile
    /\ last = Idle
    /\ disk = {} /\ proc = NoProcess
    /\ call \in {Call("collect_track_points", s, d) : s \in Scripts, d \in Docs}

CollectTrackPoints ==
    /\ call.fn = "collect_track_points" /\ ~call.done
    /\ call' = [call EXCEPT !.res = collect_track_points(call.script, call.arg),
                            !.done = TRUE]
    /\ UNCHANGED <<timeline, last, disk, proc>>

SpecExtract == InitExtract /\ [][CollectTrackPoints]_vars

(***************************************************************************)
(* The serializers' loop body (write_gpx / create_merged_gpx), applied to  *)
(* one trkpt element.  A child element is Absent, or has the text "" or    *)
(* "7"; ext tells whether the point has an <extensions> element and what   *)
(* its five recognized children are.  The lines appended for the point are *)
(* [tag, text] records; "extensions" and "/extensions" open and close the  *)
(* block.                                                                  *)
(***************************************************************************)
Absent == "absent"

FieldTexts == {Absent, "", "7"}

ExtTags == <<"speed", "course", "accuracy", "batterylevel", "useragent">>

NoExt == [present |-> FALSE, speed |-> Absent, course |-> Absent, accuracy |-> Absent,
          batterylevel |-> Absent, useragent |-> Absent]

Exts == {NoExt} \cup [present : {TRUE}, speed : FieldTexts, course : FieldTexts,
                      accuracy : FieldTexts, batterylevel : FieldTexts,
                      useragent : FieldTexts]

\* the elements a serializer is handed: the extractor keeps a point only
\* when its <time> has text
Elements == [time : {"2023-06-01T10:00:00Z"}, ele : FieldTexts, sat : FieldTexts,
             ext : Exts]

Line(tag, text) == [tag |-> tag, text |-> text]

\* variant: the elevation is written whenever the element is there
ele_line_unguarded(pt) ==
    IF pt.ele # Absent THEN <<Line("ele", pt.ele)>> ELSE <<>>

\* "if ele is not None and ele.text"
ele_line(pt) ==
    IF pt.ele # Absent /\ pt.ele # "" THEN <<Line("ele", pt.ele)>> ELSE <<>>

\* the loop over the five tags, from the i-th on
RECURSIVE ext_lines(_, _)
ext_lines(ext, i) ==
    IF i > Len(ExtTags) THEN <<>>
    ELSE (IF ext[ExtTags[i]] # Absent /\ ext[ExtTags[i]] # ""
          THEN <<Line(ExtTags[i], ext[ExtTags[i]])>> ELSE <<>>)
         \o ext_lines(ext, i + 1)

\* the lines between <trkpt ...> and </trkpt>
trkpt_lines(script, pt) ==
    (IF pt.time # Absent /\ (script = "merge_gpx" => pt.time # "")
     THEN <<Line("time", pt.time)>> ELSE <<>>)
    \o ele_line(pt)
    \o (IF pt.sat # Absent /\ pt.sat # "" THEN <<Line("sat", pt.sat)>> ELSE <<>>)
    \o (IF pt.ext.present
        THEN <<Line("extensions", "")>> \o ext_lines(pt.ext, 1)
             \o <<Line("/extensions", "")>>
        ELSE <<>>)

InitSerialize ==
    /\ timeline = NoFile
    /\ last = Idle
    /\ disk = {} /\ proc = NoProcess
    /\ call \in {Call("write_gpx", s, e) : s \in Scripts, e \in Elements}

WriteTrkpt ==
    /\ call.fn = "write_gpx" /\ ~call.done
    /\ call' = [call EXCEPT !.res = trkpt_lines(call.script, call.arg), !.done = TRUE]
    /\ UNCHANGED <<timeline, last, disk, proc>>

SpecSerialize == InitSerialize /\ [][WriteTrkpt]_vars

(***************************************************************************)
(* File names.  A text is the sequence of its characters; "A'" and "a'"    *)
(* stand for the precomposed letters U+00C1 and U+00E1 and "'" for the     *)
(* combining acute accent U+0301.                                          *)
(***************************************************************************)
Uppercase == <<"A", "B", "C", "D", "E", "F", "G", "H", "I", "J", "K", "L", "M", "N", "O", "P", "Q", "R", "S", "T", "U", "V", "W", "X", "Y", "Z", "A'">>

Lowercase == <<"a", "b", "c", "d", "e", "f", "g", "h", "i", "j", "k", "l", "m", "n", "o", "p", "q", "r", "s", "t", "u", "v", "w", "x", "y", "z", "a'">>

Digits == {"0", "1", "2", "3", "4", "5", "6", "7", "8", "9"}

\* str.lower()
lower(s) ==
    [i \in DOMAIN s |->
        IF \E k \in DOMAIN Uppercase : Uppercase[k] = s[i]
        THEN Lowercase[CHOOSE k \in DOMAIN Uppercase : Uppercase[k] = s[i]]
        ELSE s[i]]

\* unicodedata.normalize('NFD', text)
NFD(s) ==
    Concat([i \in DOMAIN s |->
        CASE s[i] = "A'" -> <<"A", "'">>
          [] s[i] = "a'" -> <<"a", "'">>
          [] OTHER       -> <<s[i]>>])

\* unicodedata.category(c) == 'Mn'
IsMn(c) == c = "'"

IsNotMn(c) == ~IsMn(c)

normalize_text(text) == SelectSeq(NFD(text), IsNotMn)

Contains(s, sub) ==
    \E i \in 1..(Len(s) - Len(sub) + 1) : SubSeq(s, i, i + Len(sub) - 1) = sub

EndsWith(s, suf) ==
    Len(s) >= Len(suf) /\ SubSeq(s, Len(s) - Len(suf) + 1, Len(s)) = suf

Max(S) == CHOOSE x \in S : \A y \in S : y <= x

GpxExt == <<".", "g", "p", "x">>

TimelineSuffix == <<"_", "T", "I", "M", "E", "L", "I", "N", "E", ".", "g", "p", "x">>

DailyMark == <<"_", "d", "a", "i", "l", "y", "_">>

\* \d{4}-\d{2}-\d{2}
IsDate(s) ==
    /\ Len(s) = 10
    /\ \A i \in 1..10 : IF i \in {5, 8} THEN s[i] = "-" ELSE s[i] \in Digits

\* the lengths group 1 of DAILY_PATTERN can have:
\* ^(.+)_daily_(\d{4}-\d{2}-\d{2})_(.+)\.gpx$
DailySplits(filename) ==
    {i \in 1..Len(filename) :
        /\ EndsWith(filename, GpxExt)
        /\ i + 19 <= Len(filename) - 4
        /\ SubSeq(filename, i + 1, i + 7) = DailyMark
        /\ IsDate(SubSeq(filename, i + 8, i + 17))
        /\ filename[i + 18] = "_"}

\* the lengths group 1 of FULL_PATTERN can have: ^(.+)_([^_]+)\.gpx$
FullSplits(filename) ==
    {i \in 1..Len(filename) :
        /\ EndsWith(filename, GpxExt)
        /\ i + 2 <= Len(filename) - 4
        /\ filename[i + 1] = "_"
        /\ \A j \in (i + 2)..(Len(filename) - 4) : filename[j] # "_"}

Parsed(session_name, username, date_str) ==
    [matched |-> TRUE, session_name |-> session_name, username |-> username,
     date_str |-> date_str]

\* None; date_str is <<>> where the code has None
NotApplicable ==
    [matched |-> FALSE, session_name |-> <<>>, username |-> <<>>, date_str |-> <<>>]

ReservedWords == {<<"t", "i", "m", "e", "l", "i", "n", "e">>, <<"m", "e", "r", "g", "e", "d">>, <<"c", "o", "m", "b", "i", "n", "e", "d">>}

\* the groups are greedy: group 1 is the longest that lets the rest match
parse_filename(filename) ==
    IF Contains(filename, TimelineSuffix) THEN NotApplicable
    ELSE IF DailySplits(filename) # {} THEN
        LET i == Max(DailySplits(filename))
        IN  Parsed(SubSeq(filename, 1, i),
                   SubSeq(filename, i + 19, Len(filename) - 4),
                   SubSeq(filename, i + 8, i + 17))
    ELSE IF FullSplits(filename) # {} THEN
        LET i == Max(FullSplits(filename))
            username == SubSeq(filename, i + 2, Len(filename) - 4)
        IN  IF lower(username) \in ReservedWords THEN NotApplicable
            ELSE Parsed(SubSeq(filename, 1, i), username, <<>>)
    ELSE NotApplicable

\* the names the exports are given: {session}_{user}.gpx and
\* {session}_daily_{date}_{user}.gpx
FullName(session, user) == session \o <<"_">> \o user \o GpxExt

DailyName(session, date, user) ==
    session \o DailyMark \o date \o <<"_">> \o user \o GpxExt

Sessions == {<<"T", "r", "i", "p">>, <<"t", "r", "i", "p">>, <<"a", "_", "b">>, <<"a">>}

PlainUsers == {<<"A", "g", "i">>, <<"A'", "g", "i">>, <<"A", "G", "I">>, <<"a", "g", "i">>, <<"B", "o", "b">>, <<"b", "_", "c">>, <<"c">>}

\* spellings of the reserved words
ReservedUsers == {<<"m", "e", "r", "g", "e", "d">>, <<"M", "e", "r", "g", "e", "d">>, <<"t", "i", "m", "e", "l", "i", "n", "e">>, <<"T", "I", "M", "E", "L", "I", "N", "E">>, <<"c", "o", "m", "b", "i", "n", "e", "d">>}

Users == PlainUsers \cup ReservedUsers

Dates == {<<"2", "0", "2", "3", "-", "0", "6", "-", "0", "1">>}

FileNames ==
    {FullName(s, u) : s \in Sessions, u \in Users}
    \cup {DailyName(s, d, u) : s \in Sessions, d \in Dates, u \in Users}
    \cup {<<"n", "o", "t", "e", "s", ".", "g", "p", "x">>, <<"m", "e", "r", "g", "e", "d", ".", "g", "p", "x">>}

InitParse ==
    /\ timeline = NoFile
    /\ last = Idle
    /\ disk = {} /\ proc = NoProcess
    /\ call \in {Call("parse_filename", "auto_merge_timelines", fn) : fn \in FileNames}

ParseFilename ==
    /\ call.fn = "parse_filename" /\ ~call.done
    /\ call' = [call EXCEPT !.res = parse_filename(call.arg), !.done = TRUE]
    /\ UNCHANGED <<timeline, last, disk, proc>>

SpecParse == InitParse /\ [][ParseFilename]_vars

(***************************************************************************)
(* scan_and_group_files.  The directory is flat here: rglob yields the     *)
(* names of its files, each once, in an order the file system chooses.     *)
(* The dict temp_groups is the sequence of its entries in insertion order. *)
(***************************************************************************)
MaxListing == 3

Date1 == <<"2", "0", "2", "3", "-", "0", "6", "-", "0", "1">>

ScanNames ==
    {FullName(<<"T", "r", "i", "p">>, <<"A", "g", "i">>),
     DailyName(<<"T", "r", "i", "p">>, Date1, <<"A'", "g", "i">>),
     DailyName(<<"t", "r", "i", "p">>, Date1, <<"a", "g", "i">>),
     FullName(<<"T", "r", "i", "p">>, <<"B", "o", "b">>),
     DailyName(<<"T", "r", "i", "p">>, Date1, <<"m", "e", "r", "g", "e", "d">>),
     FullName(<<"T", "r", "i", "p">>, <<"m", "e", "r", "g", "e", "d">>),
     FullName(<<"T", "r", "i", "p", "_", "A", "g", "i">>, <<"T", "I", "M", "E", "L", "I", "N", "E">>),
     FullName(<<"a", "_", "b">>, <<"c">>),
     DailyName(<<"a">>, Date1, <<"b", "_", "c">>),
     <<"n", "o", "t", "e", "s", ".", "g", "p", "x">>}

\* the orders in which rglob can yield up to n of the files
Listings(n) ==
    {l \in SeqsUpTo(ScanNames, n) : \A i, j \in DOMAIN l : i # j => l[i] # l[j]}

\* variant: the key keeps the casing of the names
group_key_cased(session_name, username) ==
    <<normalize_text(session_name), normalize_text(username)>>

\* key = (normalize_text(session_name).lower(), normalize_text(username).lower())
group_key(session_name, username) ==
    <<lower(normalize_text(session_name)), lower(normalize_text(username))>>

\* the loop over the listing, from its i-th file on
RECURSIVE scan_from(_, _, _)
scan_from(listing, i, temp_groups) ==
    IF i > Len(listing) THEN temp_groups
    ELSE LET parsed == parse_filename(listing[i])
             key    == group_key(parsed.session_name, parsed.username)
         IN  IF ~parsed.matched THEN scan_from(listing, i + 1, temp_groups)
             ELSE IF \A g \in DOMAIN temp_groups : temp_groups[g].key # key
             THEN scan_from(listing, i + 1,
                      Append(temp_groups,
                             [key |-> key, session_name |-> parsed.session_name,
                              username |-> parsed.username,
                              files |-> <<listing[i]>>]))
             ELSE scan_from(listing, i + 1,
                      [g \in DOMAIN temp_groups |->
                          IF temp_groups[g].key = key
                          THEN [temp_groups[g] EXCEPT !.files = Append(@, listing[i])]
                          ELSE temp_groups[g]])

scan_and_group_files(listing) == scan_from(listing, 1, <<>>)

InitScan ==
    /\ timeline = NoFile
    /\ last = Idle
    /\ disk = {} /\ proc = NoProcess
    /\ call \in {Call("scan_and_group_files", "auto_merge_timelines", l) :
                    l \in Listings(MaxListing)}

ScanAndGroup ==
    /\ call.fn = "scan_and_group_files" /\ ~call.done
    /\ call' = [call EXCEPT !.res = scan_and_group_files(call.arg), !.done = TRUE]
    /\ UNCHANGED <<timeline, last, disk, proc>>

SpecScan == InitScan /\ [][ScanAndGroup]_vars

(***************************************************************************)
(* The scripts as processes over the directory of timeline files.  disk is *)
(* that directory: a set of entries, one per name, each a directory or a   *)
(* file; a file is complete (a whole GPX document with its two display     *)
(* names and the points of the source files in srcs) or not (open(path,    *)
(* 'w') has truncated it and the text is not, or not all, on disk yet).    *)
(* Every export holds one valid point of its own, Trip_Cid.gpx none.       *)
(***************************************************************************)
MaxRuns == 2

\* the characters in code point order
CodeOrder == <<"-", ".", "0", "1", "2", "3", "4", "5", "6", "7", "8", "9", "A", "B", "C", "D", "E", "F", "G", "H", "I", "J", "K", "L", "M", "N", "O", "P", "Q", "R", "S", "T", "U", "V", "W", "X", "Y", "Z", "_", "a", "b", "c", "d", "e", "f", "g", "h", "i", "j", "k", "l", "m", "n", "o", "p", "q", "r", "s", "t", "u", "v", "w", "x", "y", "z", "A'", "a'", "'">>

ord(c) == CHOOSE k \in DOMAIN CodeOrder : CodeOrder[k] = c

\* str < str
RECURSIVE StrLess(_, _)
StrLess(s, t) ==
    IF t = <<>> THEN FALSE
    ELSE IF s = <<>> THEN TRUE
    ELSE IF Head(s) # Head(t) THEN ord(Head(s)) < ord(Head(t))
    ELSE StrLess(Tail(s), Tail(t))

\* tuple < tuple, for the keys (norm_session, norm_username)
KeyLess(k1, k2) == StrLess(k1[1], k2[1]) \/ (k1[1] = k2[1] /\ StrLess(k1[2], k2[2]))

RECURSIVE insort_group(_, _)
insort_group(g, s) ==
    IF s = <<>> THEN <<g>>
    ELSE IF KeyLess(g.key, Head(s).key) THEN <<g>> \o s
    ELSE <<Head(s)>> \o insort_group(g, Tail(s))

\* sorted(groups.items())
RECURSIVE sorted_groups(_)
sorted_groups(groups) ==
    IF groups = <<>> THEN <<>>
    ELSE insort_group(groups[Len(groups)],
                      sorted_groups(SubSeq(groups, 1, Len(groups) - 1)))

Date2 == <<"2", "0", "2", "3", "-", "0", "6", "-", "0", "2">>

EmptyExport == FullName(<<"T", "r", "i", "p">>, <<"C", "i", "d">>)

ExportNames ==
    {DailyName(<<"T", "r", "i", "p">>, Date1, <<"A'", "g", "i">>),
     DailyName(<<"T", "r", "i", "p">>, Date2, <<"A", "g", "i">>),
     DailyName(<<"t", "r", "i", "p">>, Date1, <<"a", "g", "i">>),
     FullName(<<"T", "r", "i", "p">>, <<"B", "o", "b">>),
     EmptyExport}

\* the orders in which rglob can yield up to n of the exports
ExportListings(n) ==
    {l \in SeqsUpTo(ExportNames, n) : \A i, j \in DOMAIN l : i # j => l[i] # l[j]}

BatchListings == ExportListings(MaxFiles)

\* what main() iterates over, for each of the listings
ScanResults == {sorted_groups(scan_and_group_files(l)) : l \in BatchListings}

\* the points collect_track_points returns for an export, as the set of
\* the files they are from
PointsOf(name) == IF name = EmptyExport THEN {} ELSE {name}

Dir(name) ==
    [name |-> name, kind |-> "dir", complete |-> FALSE, session_name |-> <<>>,
     username |-> <<>>, srcs |-> {}]

\* the file after open(output_path, 'w') and before the text is on disk
Truncated(name) ==
    [name |-> name, kind |-> "file", complete |-> FALSE, session_name |-> <<>>,
     username |-> <<>>, srcs |-> {}]

\* the file write_gpx leaves: <name>session_name</name> in the metadata,
\* <name>username</name> in the track, and the points
Written(job) ==
    [name |-> job.path, kind |-> "file", complete |-> TRUE,
     session_name |-> job.session_name, username |-> job.username,
     srcs |-> job.srcs]

\* the entries of the directory d named name (none or one)
At(d, name) == {e \in d : e.name = name}

\* collect_track_points of the timeline at a path that exists: a directory
\* and a truncated file raise inside the try and yield []
existing_points(d, name) ==
    UNION {IF e.kind = "file" /\ e.complete THEN e.srcs ELSE {} : e \in At(d, name)}

\* f"{normalize_text(session_name)}_{normalize_text(username)}_TIMELINE.gpx"
output_filename(session_name, username) ==
    normalize_text(session_name) \o <<"_">> \o normalize_text(username)
        \o TimelineSuffix

\* a destination that is a directory, so that open(path, 'w') raises
BlockedName == output_filename(<<"T", "r", "i", "p">>, <<"A", "g", "i">>)

InitFiles ==
    /\ timeline = NoFile
    /\ last = Idle
    /\ call = NoCall
    /\ disk \in {{}, {Dir(BlockedName)}}
    /\ proc = NoProcess

Stopped == proc.pc \in {"idle", "done", "crashed"}

\* the step after a group: the next group, or the summary and return 0
next_group(p) ==
    IF Len(p.queue) <= 1
    THEN [p EXCEPT !.queue = <<>>, !.pc = "done", !.ret = "0"]
    ELSE [p EXCEPT !.queue = Tail(p.queue), !.pc = "group"]

\* the source directory of a batch: missing, or there with the groups the
\* scan of it yields
SourceDirs ==
    {[exists |-> FALSE, groups |-> <<>>]}
        \cup {[exists |-> TRUE, groups |-> groups] : groups \in ScanResults}

\* auto_merge_timelines main() up to the loop: "Source directory does not
\* exist" and return 1, or the scan and then "No PhoneTrack GPX files found"
\* and return 0, or the sorted groups
BatchScan ==
    /\ Stopped /\ proc.runs < MaxRuns
    /\ \E source_dir \in SourceDirs, dry_run \in BOOLEAN, include_existing \in BOOLEAN :
          LET p0 == Process("auto_merge_timelines", "group", include_existing,
                            source_dir.groups, proc.runs + 1)
              p  == [p0 EXCEPT !.dry_run = dry_run]
          IN  proc' = IF ~source_dir.exists THEN [p EXCEPT !.pc = "done", !.ret = "1"]
                      ELSE IF source_dir.groups = <<>>
                      THEN [p EXCEPT !.pc = "done", !.ret = "0"]
                      ELSE p
    /\ UNCHANGED <<timeline, last, call, disk>>

\* one turn of the loop of main(): with --dry-run the files are listed and
\* the loop continues; else merge_group up to the call of write_gpx: the
\* destination, the existing timeline, the points of the files; nothing is
\* written when there is no point
BatchGroup ==
    /\ proc.script = "auto_merge_timelines" /\ proc.pc = "group"
    /\ LET g        == Head(proc.queue)
           path     == output_filename(g.session_name, g.username)
           existing == IF proc.include_existing THEN existing_points(disk, path)
                       ELSE {}
           all      == existing \cup UNION {PointsOf(g.files[i]) : i \in DOMAIN g.files}
       IN  proc' = IF proc.dry_run THEN next_group(proc)
                   ELSE IF all = {} THEN next_group(proc)
                   ELSE [proc EXCEPT !.pc = "open",
                             !.cur = Job(path, g.session_name, g.username, all,
                                         At(disk, path))]
    /\ UNCHANGED <<timeline, last, call, disk>>

\* nc_path.replace('\\', '/')
replace_backslash(s) == [i \in DOMAIN s |-> IF s[i] = "\\" THEN "/" ELSE s[i]]

\* str.split(sep)
RECURSIVE split(_, _)
split(s, sep) ==
    IF \A i \in DOMAIN s : s[i] # sep THEN <<s>>
    ELSE LET i == CHOOSE k \in DOMAIN s :
                      s[k] = sep /\ \A m \in 1..(k - 1) : s[m] # sep
         IN  <<SubSeq(s, 1, i - 1)>> \o split(SubSeq(s, i + 1, Len(s)), sep)

NoPath ==
    [matched |-> FALSE, nc_user |-> <<>>, session_name |-> <<>>,
     device_name |-> <<>>, date_str |-> <<>>]

\* (nc_user, session_name, device_name, date_str), or None when the path has
\* fewer than three parts or its last part does not match DAILY_PATTERN
parse_nextcloud_path(nc_path) ==
    LET parts    == split(replace_backslash(nc_path), "/")
        filename == parts[Len(parts)]
        i        == Max(DailySplits(filename))
    IN  IF Len(parts) < 3 \/ DailySplits(filename) = {} THEN NoPath
        ELSE [matched |-> TRUE, nc_user |-> parts[1],
              session_name |-> SubSeq(filename, 1, i),
              device_name |-> SubSeq(filename, i + 19, Len(filename) - 4),
              date_str |-> SubSeq(filename, i + 8, i + 17)]

\* the folders a storage-relative path of the file-action can start with
NcFolders ==
    {<<"u", "/", "f", "i", "l", "e", "s", "/", "P", "h", "o", "n", "e", "T", "r", "a", "c", "k", "_", "e", "x", "p", "o", "r", "t", "/">>,
     <<"u", "\\", "f", "i", "l", "e", "s", "\\", "P", "h", "o", "n", "e", "T", "r", "a", "c", "k", "_", "e", "x", "p", "o", "r", "t", "\\">>,
     <<"u", "/">>}

NcFilePaths == {folder \o name : folder \in NcFolders, name \in ExportNames}

\* the points collect_track_points can return for the new file handed over
\* with the path: those of the export the path names, or none
NewFiles_of(nc_path) ==
    LET parts == split(replace_backslash(nc_path), "/")
    IN  {PointsOf(parts[Len(parts)]), {}}

\* variant: the new file is merged also when it holds no point
update_timeline_unchecked(d, new_points, nc_path, runs) ==
    LET p0     == Process("phonetrack_timeline_updater", "open", FALSE, <<>>, runs)
        p      == [p0 EXCEPT !.arg = [nc_path |-> nc_path, new_file |-> new_points]]
        parsed == parse_nextcloud_path(nc_path)
        path   == output_filename(parsed.session_name, parsed.device_name)
    IN  IF ~parsed.matched THEN [p EXCEPT !.pc = "done", !.ret = "False"]
        ELSE [p EXCEPT !.cur = Job(path, parsed.session_name, parsed.device_name,
                                   existing_points(d, path) \cup new_points,
                                   At(d, path))]

\* update_timeline() up to the call of write_gpx: return False when the
\* path does not parse or the new file has no valid point, else the
\* timeline path, the names and the points to write
update_timeline_begin(d, new_points, nc_path, runs) ==
    LET p0     == Process("phonetrack_timeline_updater", "open", FALSE, <<>>, runs)
        p      == [p0 EXCEPT !.arg = [nc_path |-> nc_path, new_file |-> new_points]]
        parsed == parse_nextcloud_path(nc_path)
        path   == output_filename(parsed.session_name, parsed.device_name)
    IN  IF ~parsed.matched THEN [p EXCEPT !.pc = "done", !.ret = "False"]
        ELSE IF new_points = {} THEN [p EXCEPT !.pc = "done", !.ret = "False"]
        ELSE [p EXCEPT !.cur = Job(path, parsed.session_name, parsed.device_name,
                                   existing_points(d, path) \cup new_points,
                                   At(d, path))]

\* phonetrack_timeline_updater update_timeline(new_file, nc_path, data_dir)
\* is started for a new file
UpdateStart ==
    /\ Stopped /\ proc.runs < MaxRuns
    /\ \E nc_path \in NcFilePaths :
          \E new_points \in NewFiles_of(nc_path) :
              proc' = update_timeline_begin(disk, new_points, nc_path, proc.runs + 1)
    /\ UNCHANGED <<timeline, last, call, disk>>

\* write_gpx: mkdir(parents=True, exist_ok=True) and open(output_path, 'w'),
\* which truncates the file, or raises when the path is a directory; no
\* caller catches the error
OpenOutput ==
    /\ proc.pc = "open"
    /\ IF \E e \in At(disk, proc.cur.path) : e.kind = "dir"
       THEN /\ proc' = [proc EXCEPT !.pc = "done", !.raised = "IsADirectoryError"]
            /\ UNCHANGED disk
       ELSE /\ disk' = (disk \ At(disk, proc.cur.path)) \cup {Truncated(proc.cur.path)}
            /\ proc' = [proc EXCEPT !.pc = "write"]
    /\ UNCHANGED <<timeline, last, call>>

\* write_gpx: f.write('\n'.join(lines)) and the close that ends the with
\* block; then the next group (main) or the rescan (update_timeline)
WriteOutput ==
    /\ proc.pc = "write"
    /\ disk' = (disk \ At(disk, proc.cur.path)) \cup {Written(proc.cur)}
    /\ LET p == [proc EXCEPT !.written = @ \cup {proc.cur.path}]
       IN  proc' = IF proc.script = "auto_merge_timelines" THEN next_group(p)
                   ELSE [p EXCEPT !.pc = "rescan"]
    /\ UNCHANGED <<timeline, last, call>>

RescanOutcomes == {"ok", "nonzero", "timeout", "raises"}

\* variant: an error of the rescan command escapes update_timeline
rescan_propagates(p, outcome) ==
    IF outcome \in {"timeout", "raises"}
    THEN [p EXCEPT !.pc = "done", !.hook = outcome, !.raised = "Exception"]
    ELSE [p EXCEPT !.pc = "done", !.hook = outcome, !.ret = "True"]

\* the try block around subprocess.run and the return True behind it
rescan(p, outcome) == [p EXCEPT !.pc = "done", !.hook = outcome, !.ret = "True"]

\* update_timeline after write_gpx: php occ files:scan returns 0, returns
\* another code, exceeds the timeout, or cannot be started
RescanHook ==
    /\ proc.pc = "rescan"
    /\ \E outcome \in RescanOutcomes : proc' = rescan(proc, outcome)
    /\ UNCHANGED <<timeline, last, call, disk>>

\* the process is killed between two of its steps
Crash ==
    /\ proc.pc \in {"group", "open", "write", "rescan"}
    /\ proc' = [proc EXCEPT !.pc = "crashed"]
    /\ UNCHANGED <<timeline, last, call, disk>>

NextFiles ==
    BatchScan \/ BatchGroup \/ UpdateStart \/ OpenOutput \/ WriteOutput
        \/ RescanHook \/ Crash

SpecFiles == InitFiles /\ [][NextFiles]_vars

(***************************************************************************)
(* merge_gpx.py main(): file1, file2 and the output (-o, default           *)
(* merged.gpx) are paths of one folder; nothing keeps the output path from *)
(* being the path of a source.  The folder maps each path to the file      *)
(* there.                                                                  *)
(***************************************************************************)
GpxPaths == {"old.gpx", "new.gpx", "merged.gpx"}

FolderDocs == {NoFile, XmlFile(<<pZ>>), XmlFile(<<pEarly>>)}

Folders == [GpxPaths -> FolderDocs]

MergeArgs ==
    [file1 : GpxPaths, file2 : GpxPaths, output : GpxPaths,
     fix_year_2000 : BOOLEAN, folder : Folders]

\* the folder after main(), and how main() ended: sys.exit(1) when a source
\* does not exist, else merge_gpx_files, which writes to the output path
merge_gpx_main(args) ==
    LET o == merge_gpx_files(args.folder[args.output], args.folder[args.file1],
                             args.folder[args.file2], args.fix_year_2000)
    IN  IF ~args.folder[args.file1].exists \/ ~args.folder[args.file2].exists
        THEN [folder |-> args.folder, wrote |-> FALSE, status |-> "exit 1"]
        ELSE [folder |-> [args.folder EXCEPT ![args.output] = o.file],
              wrote |-> o.run.wrote, status |-> o.run.raised]

InitSources ==
    /\ timeline = NoFile
    /\ last = Idle
    /\ disk = {} /\ proc = NoProcess
    /\ call \in {Call("main", "merge_gpx", a) : a \in MergeArgs}

MergeGpxMain ==
    /\ call.fn = "main" /\ call.script = "merge_gpx" /\ ~call.done
    /\ call' = [call EXCEPT !.res = merge_gpx_main(call.arg), !.done = TRUE]
    /\ UNCHANGED <<timeline, last, disk, proc>>

SpecSources == InitSources /\ [][MergeGpxMain]_vars

(***************************************************************************)
(* Properties.  What they say of a run is read from its record.            *)
(***************************************************************************)
Range(s) == {s[i] : i \in DOMAIN s}

\* the three texts of a point
Triple(p) == <<p.lat, p.lon, p.time>>

\* the timestamp a reader of the written file obtains for a point
TimeOf(p) == parse_timestamp(p.time)

\* the merges that consolidate an existing timeline and source lists
ConsolidatingOps == {"merge_group", "update_timeline", "merge_gpx_files"}

\* the extracted input entries of the run, existing timeline first
Inputs == last.existing \o Concat(last.lists)

\* the key under which the merge that ran tells duplicates apart: position
\* texts and the ISO rendering of the parsed timestamp; in merge_gpx_files
\* the position texts and the time text (as it stands after the year 2000
\* rewrite)
MergeKey(p) ==
    IF last.op = "merge_gpx_files" THEN Triple(p)
    ELSE <<p.lat, p.lon, isoformat(TimeOf(p))>>

\* the positions of the written sequence holding a point of key k
OutWithKey(k) == {n \in DOMAIN last.out : MergeKey(last.out[n]) = k}

OutWithTriple(t) == {n \in DOMAIN last.out : Triple(last.out[n]) = t}

\* C1: for every merge (merge_group, update_timeline, merge_gpx_files) and
\* every pair of input points with the same lat text,
\* lon text and timestamp text, the written output contains exactly one
\* point with that triple.  (Pairs of the year 2000 are left aside here: the
\* sentinel filter speaks of them.)
C1_OneCopyPerTextTriple ==
    (last.wrote /\ last.op \in ConsolidatingOps) =>
        \A i, j \in DOMAIN Inputs :
            (/\ i < j /\ Triple(Inputs[i].pt) = Triple(Inputs[j].pt)
             /\ Inputs[i].ts.y # SentinelYear) =>
                Cardinality(OutWithTriple(Triple(Inputs[i].pt))) = 1

\* C2: a point is dropped by the duplicate scan only if an earlier
\* point in concatenation order has the same lat, lon and timestamp texts as
\* written in the source (so a "Z" and a "+00:00" point are both retained).
C2_DroppedOnlyOnSameTexts ==
    last.op \in ConsolidatingOps =>
        \A i \in DOMAIN last.all_points :
            last.all_points[i] \notin Range(last.unique) =>
                \E j \in 1..(i - 1) : Triple(Inputs[j].pt) = Triple(Inputs[i].pt)

\* C3: in the point sequence written by every merge, the absolute timestamp
\* of each point is less than or equal to that of the point after it.
C3_OutputSortedByTime ==
    last.wrote =>
        \A n \in 1..(Len(last.out) - 1) :
            Instant(TimeOf(last.out[n])) <= Instant(TimeOf(last.out[n + 1]))

\* C4: running the same merge again on unchanged sources leaves the
\* timeline's point sequence as the run before wrote it.
C4_RerunChangesNothing ==
    last.again => timeline.pts = last.prev.pts

\* the runs that are handed the previous timeline as their existing input
ReadsExisting ==
    last.op = "update_timeline" \/ (last.op = "merge_group" /\ last.flag)

\* C5: a merge that is handed the previous timeline as existing input writes
\* every point of the previous version, also when that file cannot be parsed.
C5_NeverLosesPoint ==
    (last.wrote /\ ReadsExisting) =>
        \A n \in DOMAIN last.prev.pts : last.prev.pts[n] \in Range(last.out)

\* C6: no point whose timestamp year is 2000 is in the output of any merge.
C6_NoSentinelYearWritten ==
    last.wrote =>
        \A n \in DOMAIN last.out : TimeOf(last.out[n]).y # SentinelYear

\* the first position of the concatenation holding a point of key k
FirstWithKey(k) ==
    CHOOSE i \in DOMAIN last.all_points :
        /\ MergeKey(last.all_points[i].pt) = k
        /\ \A j \in 1..(i - 1) : MergeKey(last.all_points[j].pt) # k

\* p is q but for the time text (which the year 2000 rewrite of
\* merge_gpx_files replaces)
SameButTime(p, q) == [p EXCEPT !.time = q.time] = q

\* C7: the merge concatenates the existing timeline's points and then the
\* source lists in order, and for every key the point written is the first
\* one of that concatenation, with all of its own fields.
C7_FirstOccurrenceKept ==
    last.wrote =>
        /\ Len(last.all_points) = Len(Inputs)
        /\ Range(SubSeq(last.all_points, 1, Len(last.existing))) = Range(last.existing)
        /\ \A i \in (Len(last.existing) + 1)..Len(Inputs) :
              IF last.op = "merge_gpx_files"
              THEN SameButTime(last.all_points[i].pt, Inputs[i].pt)
              ELSE IF last.op = "merge_gabor_timelines"
              THEN last.all_points[i] \in Range(Concat(last.lists))
              ELSE last.all_points[i] = Inputs[i]
        /\ (last.op \in {"merge_group", "update_timeline"} => last.all_points = Inputs)
        /\ \A i \in DOMAIN last.all_points :
              OutWithKey(MergeKey(last.all_points[i].pt)) # {}
        /\ \A n \in DOMAIN last.out :
              last.out[n] = last.all_points[FirstWithKey(MergeKey(last.out[n]))].pt

\* a point of a source list has the key of a point of the existing timeline
\* and other fields, and the existing one alone was written
C7_LaterDuplicateDropped ==
    /\ last.wrote
    /\ \E i \in DOMAIN last.existing :
       \E j \in (Len(last.existing) + 1)..Len(last.all_points) :
          /\ MergeKey(last.all_points[i].pt) = MergeKey(last.all_points[j].pt)
          /\ last.all_points[i].pt # last.all_points[j].pt
          /\ last.all_points[i].pt \in Range(last.out)
          /\ last.all_points[j].pt \notin Range(last.out)

\* position i of the concatenation holds the first point of its key
IsFirst(i) ==
    \A j \in 1..(i - 1) :
        MergeKey(last.all_points[j].pt) # MergeKey(last.all_points[i].pt)

\* positions i < j hold two retained points of one time and two locations
Tie(i, j) ==
    /\ i < j /\ IsFirst(i) /\ IsFirst(j)
    /\ Instant(last.all_points[i].ts) = Instant(last.all_points[j].ts)
    /\ <<last.all_points[i].pt.lat, last.all_points[i].pt.lon>> #
          <<last.all_points[j].pt.lat, last.all_points[j].pt.lon>>

\* C8: two points of the same absolute timestamp and different locations are
\* both written, in the order they have in the concatenation before the sort.
C8_StableTies ==
    last.wrote =>
        \A i, j \in DOMAIN last.all_points :
            Tie(i, j) =>
                \E m, n \in DOMAIN last.out :
                    /\ m < n
                    /\ last.out[m] = last.all_points[i].pt
                    /\ last.out[n] = last.all_points[j].pt

\* a merge wrote two points of one time and two locations
C8_TieWritten ==
    /\ last.wrote
    /\ \E i, j \in DOMAIN last.all_points :
          /\ Tie(i, j)
          /\ last.all_points[i].pt \in Range(last.out)
          /\ last.all_points[j].pt \in Range(last.out)

\* C9: when the existing timeline's points and all source lists together are
\* empty after filtering, the merge writes no file, leaves the file at the
\* output path as it is, and does not fail.
C9_EmptyUnionWritesNothing ==
    (/\ last.op # "none" /\ Inputs = <<>>
     /\ last.raised \notin {"ParseError", "FileNotFoundError"}) =>
        ~last.wrote /\ timeline = last.prev /\ last.raised = ""

\* C10: a source file that is missing or not parseable XML counts as an empty
\* point list: it does not end the merge.
C10_UnreadableSourceSkipped ==
    last.skipped > 0 => last.raised # "ParseError"

\* C18: the extractor returns the same track points for a document whose
\* elements carry no namespace as for the same document with its elements
\* qualified with the GPX namespace.
C18_SameWithoutNamespace ==
    (/\ call.fn = "collect_track_points" /\ call.done /\ call.arg.ok
     /\ call.script \in {"auto_merge_timelines", "phonetrack_timeline_updater"}) =>
        call.res = collect_track_points(call.script, XmlFile(call.arg.pts))

\* the fixed order of the lines of a point
LineOrder == <<"time", "ele", "sat", "extensions", "speed", "course", "accuracy",
               "batterylevel", "useragent", "/extensions">>

Rank(tag) == CHOOSE i \in DOMAIN LineOrder : LineOrder[i] = tag

\* the text the source point has for a field tag
SourceText(pt, tag) ==
    CASE tag = "time" -> pt.time
      [] tag = "ele"  -> pt.ele
      [] tag = "sat"  -> pt.sat
      [] OTHER        -> pt.ext[tag]

FieldTags == {"time", "ele", "sat"} \cup Range(ExtTags)

Emitted(tag) == \E i \in DOMAIN call.res : call.res[i].tag = tag

\* the lines are in the fixed order, and a field is emitted exactly when the
\* source point has text for it, with that text
FieldsEmittedInOrder ==
    /\ \A i, j \in DOMAIN call.res :
          i < j => Rank(call.res[i].tag) < Rank(call.res[j].tag)
    /\ \A tag \in FieldTags :
          /\ Emitted(tag) <=> SourceText(call.arg, tag) \notin {Absent, ""}
          /\ \A i \in DOMAIN call.res :
                call.res[i].tag = tag => call.res[i].text = SourceText(call.arg, tag)

\* C19 as stated: the fields are emitted in the fixed order, exactly those
\* that the source point has with text, and no empty element is emitted (an
\* extensions block holds at least one field).
C19_NoEmptyElement ==
    (call.fn = "write_gpx" /\ call.done) =>
        /\ FieldsEmittedInOrder
        /\ Emitted("extensions") => \E i \in DOMAIN ExtTags : Emitted(ExtTags[i])

\* C19 amended: the fields are emitted in the fixed order, exactly those that
\* the source point has with text; the extensions block is emitted exactly
\* when the source point has an extensions element, also when it then holds
\* no field.
C19_FieldEmission ==
    (call.fn = "write_gpx" /\ call.done) =>
        /\ FieldsEmittedInOrder
        /\ Emitted("extensions") <=> call.arg.ext.present
        /\ Emitted("/extensions") <=> call.arg.ext.present

\* a point with an element without text, an absent one and fields with text
\* was serialized
C19_MixedPointWritten ==
    /\ call.fn = "write_gpx" /\ call.done
    /\ call.arg.ele = "" /\ call.arg.sat = "7"
    /\ call.arg.ext.present /\ call.arg.ext.speed = Absent
    /\ call.arg.ext.course = "" /\ call.arg.ext.useragent = "7"
    /\ Len(call.res) = 5

\* C20: every written point has the latitude text, longitude text and
\* timestamp text of a source point of the run, character for character.
C20_TextsVerbatim ==
    last.wrote =>
        \A n \in DOMAIN last.out :
            \E i \in DOMAIN Inputs : Triple(Inputs[i].pt) = Triple(last.out[n])

\* the file is named as a timeline output: ..._TIMELINE.gpx
IsTimelineOutput(filename) == EndsWith(filename, TimelineSuffix)

\* the file has the shape of a full or of a daily export and its user
\* component is a reserved word
HasReservedUser(filename) ==
    \E s \in Sessions, u \in ReservedUsers :
        \/ filename = FullName(s, u)
        \/ \E d \in Dates : filename = DailyName(s, d, u)

\* C16: parse_filename returns "not applicable" for every timeline output
\* and for every file whose user component is a reserved word, full or
\* daily.
C16_ReservedNamesExcluded ==
    (/\ call.fn = "parse_filename" /\ call.done
     /\ IsTimelineOutput(call.arg) \/ HasReservedUser(call.arg)) =>
        call.res = NotApplicable

\* the groups of the finished scan that hold the file
GroupsOf(filename) ==
    {g \in DOMAIN call.res : filename \in Range(call.res[g].files)}

\* the (lower-cased, accent-stripped) session and user of a file name
FoldedPair(filename) ==
    <<normalize_text(lower(parse_filename(filename).session_name)),
      normalize_text(lower(parse_filename(filename).username))>>

\* C13: after a scan every file parse_filename accepts is in exactly one
\* group (and no other file is in any), and two accepted files are in the
\* same group exactly when their accent-stripped, lower-cased (session,
\* user) pairs are equal.
C13_GroupedByFoldedPair ==
    (call.fn = "scan_and_group_files" /\ call.done) =>
        /\ \A i \in DOMAIN call.arg :
              Cardinality(GroupsOf(call.arg[i])) =
                  IF parse_filename(call.arg[i]).matched THEN 1 ELSE 0
        /\ \A g \in DOMAIN call.res :
              Cardinality(Range(call.res[g].files)) = Len(call.res[g].files)
        /\ \A i, j \in DOMAIN call.arg :
              (parse_filename(call.arg[i]).matched /\ parse_filename(call.arg[j]).matched) =>
                  (GroupsOf(call.arg[i]) = GroupsOf(call.arg[j])
                      <=> FoldedPair(call.arg[i]) = FoldedPair(call.arg[j]))

\* a scan put a full export and daily exports that spell the same user with
\* other casing and accents into one group
C13_SpellingsGrouped ==
    /\ call.fn = "scan_and_group_files" /\ call.done
    /\ \E g \in DOMAIN call.res :
          \E f1, f2, f3 \in Range(call.res[g].files) :
              /\ parse_filename(f1).date_str = <<>>
              /\ parse_filename(f2).date_str # <<>>
              /\ parse_filename(f3).date_str # <<>>
              /\ parse_filename(f1).username # parse_filename(f2).username
              /\ parse_filename(f1).session_name # parse_filename(f3).session_name

\* the batch has ended, by the return of main() or by an error
BatchEnded == proc.script = "auto_merge_timelines" /\ proc.pc = "done"

IsDir(name) == \E e \in At(disk, name) : e.kind = "dir"

\* C11: when a batch that is not a dry run has ended, every group that has
\* points and whose destination can be written has been written, whatever
\* happened to the other groups.
C11_FailureIsolated ==
    (BatchEnded /\ ~proc.dry_run) =>
        \A i \in DOMAIN proc.groups :
            LET g    == proc.groups[i]
                path == output_filename(g.session_name, g.username)
            IN  ((\E k \in DOMAIN g.files : PointsOf(g.files[k]) # {}) /\ ~IsDir(path))
                    => path \in proc.written

\* C12: when the process has crashed, every file of the timeline directory
\* is a whole document, and the destination of the write in progress holds
\* what it held before or the new document.
C12_CrashLeavesWholeFiles ==
    proc.pc = "crashed" =>
        /\ \A e \in disk : e.kind = "file" => e.complete
        /\ proc.cur # NoJob =>
              At(disk, proc.cur.path) \in {proc.cur.before, {Written(proc.cur)}}

\* C14: a write to a timeline that already was a whole document keeps the
\* session and user names displayed in it.
C14_DisplayNamesKept ==
    (proc.cur # NoJob /\ proc.cur.path \in proc.written) =>
        \A b \in proc.cur.before :
            (b.kind = "file" /\ b.complete) =>
                /\ b.session_name = proc.cur.session_name
                /\ b.username = proc.cur.username

\* C15: the timeline directory never holds two written timeline files whose
\* (session, user) are the same after case folding.
C15_OneFilePerKey ==
    \A e1, e2 \in disk :
        (/\ e1.kind = "file" /\ e1.complete /\ e2.kind = "file" /\ e2.complete
         /\ lower(e1.name) = lower(e2.name)) => e1.name = e2.name

Updater == proc.script = "phonetrack_timeline_updater"

\* C17: the rescan command is run only after the timeline is written, and
\* however it ends the written timeline stays as it is and update_timeline
\* returns True.
C17_RescanBestEffort ==
    /\ (Updater /\ (proc.pc = "rescan" \/ proc.hook # "not run")) =>
          /\ proc.cur.path \in proc.written
          /\ At(disk, proc.cur.path) = {Written(proc.cur)}
    /\ (Updater /\ proc.hook # "not run") =>
          /\ proc.pc = "done" /\ proc.ret = "True" /\ proc.raised = ""

\* an update of an existing timeline was written and the rescan command
\* then could not be started
C17_RescanRaisedAfterWrite ==
    /\ Updater /\ proc.hook = "raises" /\ proc.ret = "True"
    /\ proc.cur.before # {}
    /\ proc.cur.srcs # PointsOf(proc.cur.path)
    /\ Cardinality(proc.cur.srcs) = 2

\* the call of update_timeline fails: the path does not parse as a daily
\* export, or the new file has no valid point
UpdateFails(arg) == ~parse_nextcloud_path(arg.nc_path).matched \/ arg.new_file = {}

\* C25: an update_timeline whose path does not parse as a daily export or
\* whose new file has no valid point returns False, writes nothing, runs no
\* rescan and leaves the timeline directory as it was; an update that wrote
\* had a new file with at least one point.
C25_FailedUpdateLeavesTimeline ==
    /\ []((Updater /\ UpdateFails(proc.arg)) =>
            /\ proc.pc = "done" /\ proc.ret = "False" /\ proc.hook = "not run"
            /\ proc.written = {} /\ proc.cur = NoJob)
    /\ []((Updater /\ proc.written # {}) => ~UpdateFails(proc.arg))
    /\ [][(proc'.script = "phonetrack_timeline_updater" /\ UpdateFails(proc'.arg))
             => disk' = disk]_vars

\* an update for a daily export whose timeline exists failed because the
\* new file held no valid point
C25_EmptyUpdateOfExistingTimeline ==
    /\ Updater /\ proc.ret = "False"
    /\ parse_nextcloud_path(proc.arg.nc_path).matched /\ proc.arg.new_file = {}
    /\ \E e \in disk :
          /\ e.kind = "file" /\ e.complete
          /\ e.name = output_filename(parse_nextcloud_path(proc.arg.nc_path).session_name,
                                      parse_nextcloud_path(proc.arg.nc_path).device_name)

\* C22: any two groups of one scan (their keys differ) have different
\* output file names {accent-stripped session}_{accent-stripped user}_TIMELINE.gpx.
C22_DistinctOutputPaths ==
    (call.fn = "scan_and_group_files" /\ call.done) =>
        \A g, h \in DOMAIN call.res :
            call.res[g].key # call.res[h].key =>
                output_filename(call.res[g].session_name, call.res[g].username)
                    # output_filename(call.res[h].session_name, call.res[h].username)

\* C21: after a run the files at the paths of the sources are what they were
\* before the run.
C21_SourcesUnchanged ==
    (call.fn = "main" /\ call.script = "merge_gpx" /\ call.done) =>
        /\ call.res.folder[call.arg.file1] = call.arg.folder[call.arg.file1]
        /\ call.res.folder[call.arg.file2] = call.arg.folder[call.arg.file2]

\* C24: every entry the extractor keeps in merge_group and update_timeline
\* has a timestamp with a UTC offset, and the sort of the merge does not
\* raise on the timestamps.
C24_TimestampsComparable ==
    last.op \in {"merge_group", "update_timeline"} =>
        /\ \A i \in DOMAIN Inputs : Inputs[i].ts.aware
        /\ last.raised # "TypeError"

\* C23: when merge_group or update_timeline has written its points with
\* write_gpx, reading the written file back with collect_track_points yields
\* the written points, in the same order and with the same texts.
C23_WriteReadRoundTrip ==
    (last.op \in {"merge_group", "update_timeline"} /\ last.wrote) =>
        LET back == am_collect_track_points(timeline)
        IN  [i \in DOMAIN back |-> back[i].pt]
                = [i \in DOMAIN last.out |-> emit(last.out[i])]
====
